---- MODULE Spec2Model ----
(***************************************************************************)
(* Model of the Data Sweeper script (src/main.py): a Streamlit script that *)
(* loads every uploaded CSV / Excel file into a DataFrame, applies the     *)
(* selected cleaning operations, projects the columns to keep, optionally  *)
(* draws a chart and converts the frame to CSV or Excel on demand.         *)
(*                                                                         *)
(* Strings the code transforms character by character (file names, column *)
(* names, widget keys) are sequences of one-character strings.  Cell text  *)
(* is never transformed and is a plain string.                             *)
(***************************************************************************)
EXTENDS Integers, Sequences, FiniteSets, TLC

VARIABLES
    uploaded_files,     \* value of st.file_uploader: sequence of [name, content]
    session_state,      \* st.session_state: [keys, cleaned_data, show_balloons]
    pc,                 \* position of the script run
    idx,                \* index of `file` in the loop over uploaded_files
    df,                 \* the local DataFrame df (NoDf when unbound)
    hist,               \* df after load and after each cleaning `if` of this file
    cleaning_options,   \* value of the per-file cleaning multiselect
    columns_to_remove,  \* value of the "columns to remove" multiselect
    columns_to_keep,    \* value of the "columns to keep" multiselect
    viz,                \* what the visualization block did for this file
    download,           \* the per-file st.download_button, or NoDownload
    sidebar,            \* what the sidebar "Convert and Download" block did
    outcome             \* per uploaded file: how far the run got with it

vars == <<uploaded_files, session_state, pc, idx, df, hist, cleaning_options,
          columns_to_remove, columns_to_keep, viz, download, sidebar, outcome>>

(***************************************************************************)
(* Bounds of the model.                                                    *)
(***************************************************************************)
MaxRows == 4        \* data rows of a file under SpecOps
MaxRowsPerm == 2    \* data rows of a file under SpecClean
MaxFiles == 2       \* files uploaded together under Spec

(***************************************************************************)
(* Generic sequence helpers.                                               *)
(***************************************************************************)
Range(s) == {s[i] : i \in DOMAIN s}

IsPrefixAt(s, p, i) ==
    /\ i + Len(p) - 1 <= Len(s)
    /\ \A j \in 1..Len(p) : s[i + j - 1] = p[j]

\* Sequences over S without repetition, of every length.
RECURSIVE Arrangements(_)
Arrangements(S) ==
    IF S = {} THEN {<<>>}
    ELSE {<<>>} \cup UNION {{<<x>> \o r : r \in Arrangements(S \ {x})} : x \in S}

SeqsUpTo(S, n) == UNION {[1..k -> S] : k \in 0..n}

(***************************************************************************)
(* Characters and str methods.                                             *)
(***************************************************************************)
\* str.lower() on the characters the model uses
LowerChar(c) ==
    CASE c = "A" -> "a"
      [] c = "B" -> "b"
      [] c = "C" -> "c"
      [] c = "D" -> "d"
      [] c = "S" -> "s"
      [] c = "V" -> "v"
      [] c = "X" -> "x"
      [] c = "L" -> "l"
      [] OTHER -> c

Lower(s) == [i \in DOMAIN s |-> LowerChar(s[i])]

\* str.replace(old, new): every non-overlapping occurrence, left to right
RECURSIVE ReplaceFrom(_, _, _, _)
ReplaceFrom(s, old, new, i) ==
    IF i > Len(s) THEN <<>>
    ELSE IF IsPrefixAt(s, old, i)
         THEN new \o ReplaceFrom(s, old, new, i + Len(old))
         ELSE <<s[i]>> \o ReplaceFrom(s, old, new, i + 1)

\* with an empty `old`, `new` goes before every character and at the end
RECURSIVE InsertFrom(_, _, _)
InsertFrom(s, new, i) ==
    IF i > Len(s) THEN new ELSE new \o <<s[i]>> \o InsertFrom(s, new, i + 1)

Replace(s, old, new) ==
    IF old = <<>> THEN InsertFrom(s, new, 1) ELSE ReplaceFrom(s, old, new, 1)

\* os.path.splitext(name)[-1]: from the last dot on; empty when there is no
\* dot or the name only has leading dots
LastDot(s) ==
    IF \E i \in DOMAIN s : s[i] = "."
    THEN CHOOSE i \in DOMAIN s : s[i] = "." /\ \A j \in DOMAIN s : s[j] = "." => j <= i
    ELSE 0

SplitExt(s) ==
    LET d == LastDot(s)
    IN  IF d = 0 \/ \A j \in 1..d : s[j] = "." THEN <<>>
        ELSE SubSeq(s, d, Len(s))

(***************************************************************************)
(* Cells, numbers and DataFrames.                                          *)
(*                                                                         *)
(* A cell is missing (NaN), a number or a text.  Numbers are exact         *)
(* fractions in lowest terms, so that a column mean is itself a number.    *)
(* A DataFrame is its column labels, the dtype of each column and its      *)
(* rows; columns are addressed by position because pandas allows two       *)
(* columns to carry the same label.                                        *)
(***************************************************************************)
RECURSIVE GCD(_, _)
GCD(a, b) == IF b = 0 THEN a ELSE GCD(b, a % b)

NA == [k |-> "na"]
Num(n, d) == LET g == GCD(n, d) IN [k |-> "num", n |-> n \div g, d |-> d \div g]
Txt(s) == [k |-> "txt", s |-> s]

IsNA(c) == c.k = "na"
IsNum(c) == c.k = "num"

NumAdd(a, b) == Num(a.n * b.d + b.n * a.d, a.d * b.d)

NoDf == [k |-> "nodf"]
Frame(cols, dtypes, rows) == [k |-> "df", cols |-> cols, dtypes |-> dtypes, rows |-> rows]

NCols(t) == Len(t.cols)
NRows(t) == Len(t.rows)
Column(t, j) == [i \in 1..NRows(t) |-> t.rows[i][j]]

\* df.select_dtypes(include=["number"]).columns, as column positions
NumericPositions(t) == {j \in 1..NCols(t) : t.dtypes[j] = "number"}

\* the positions of the columns labelled `name`
PositionsOf(t, name) == {j \in 1..NCols(t) : t.cols[j] = name}

\* the frame made of the columns at positions ps[1], ps[2], ...
TakeColumns(t, ps) ==
    Frame([i \in 1..Len(ps) |-> t.cols[ps[i]]],
          [i \in 1..Len(ps) |-> t.dtypes[ps[i]]],
          [r \in 1..NRows(t) |-> [i \in 1..Len(ps) |-> t.rows[r][ps[i]]]])

\* the elements of a set of positions in increasing order
RECURSIVE Ascending(_)
Ascending(S) ==
    IF S = {} THEN <<>>
    ELSE LET m == CHOOSE x \in S : \A y \in S : x <= y
         IN  <<m>> \o Ascending(S \ {m})

(***************************************************************************)
(* File contents and the pandas readers and writers.                       *)
(*                                                                         *)
(* A CSV file is a header line and record lines of text fields; a record   *)
(* with no field is a blank line.  An Excel sheet is a header row and rows *)
(* of typed cells.  Numbers are written as their text and parsed back from *)
(* it; the text of a fraction stands for its decimal expansion.            *)
(***************************************************************************)
Csv(header, rows) == [fmt |-> "csv", header |-> header, rows |-> rows]
Xlsx(header, rows) == [fmt |-> "xlsx", header |-> header, rows |-> rows]

Ok(t) == [ok |-> TRUE, df |-> t]
Err(e) == [ok |-> FALSE, err |-> e]

\* the numbers a bounded file can hold or a mean over its rows can produce
NumDomain == {Num(n, d) : n \in 0..(2 * (MaxRows + 1)), d \in 1..(MaxRows + 1)}

NumStr(v) == IF v.d = 1 THEN ToString(v.n) ELSE ToString(v.n) \o "/" \o ToString(v.d)

IsNumStr(f) == \E v \in NumDomain : NumStr(v) = f
ParseNum(f) == CHOOSE v \in NumDomain : NumStr(v) = f

\* pandas' default na_values (a part of the list)
NaStrings == {"", "NA", "NaN", "null"}

\* pandas renames the k-th repeat of a header label to "label.k"
DedupNames(header) ==
    [i \in DOMAIN header |->
        LET k == Cardinality({j \in 1..(i - 1) : header[j] = header[i]})
        IN  IF k = 0 THEN header[i] ELSE header[i] \o <<".", ToString(k)>>]

\* pd.read_csv on the parsed lines of a CSV file
ReadCsvLines(header, lines) ==
    LET recs == SelectSeq(lines, LAMBDA r : Len(r) > 0)    \* skip_blank_lines
        n == Len(header)
        numeric(j) == \A i \in DOMAIN recs :
                          recs[i][j] \in NaStrings \/ IsNumStr(recs[i][j])
        cell(f, j) == IF f \in NaStrings THEN NA
                      ELSE IF numeric(j) THEN ParseNum(f) ELSE Txt(f)
    IN  IF n = 0 THEN Err("EmptyDataError")
        ELSE IF \E i \in DOMAIN recs : Len(recs[i]) # n THEN Err("ParserError")
        ELSE Ok(Frame(DedupNames(header),
                      [j \in 1..n |-> IF numeric(j) THEN "number" ELSE "object"],
                      [i \in DOMAIN recs |-> [j \in 1..n |-> cell(recs[i][j], j)]]))

\* the rows of a sheet up to its last row that holds a value
RECURSIVE TrimEmptyRows(_)
TrimEmptyRows(rows) ==
    IF rows = <<>> THEN <<>>
    ELSE IF \A j \in DOMAIN rows[Len(rows)] : IsNA(rows[Len(rows)][j])
         THEN TrimEmptyRows(SubSeq(rows, 1, Len(rows) - 1))
         ELSE rows

\* pd.read_excel on the cells of a sheet
ReadSheet(header, cells) ==
    LET recs == TrimEmptyRows(cells)
        n == Len(header)
        value(c) == IF c.k = "txt" /\ c.s \in NaStrings THEN NA ELSE c
        numeric(j) == \A i \in DOMAIN recs : value(recs[i][j]).k # "txt"
    IN  Ok(Frame(DedupNames(header),
                 [j \in 1..n |-> IF numeric(j) THEN "number" ELSE "object"],
                 IF n = 0 THEN <<>>
                 ELSE [i \in DOMAIN recs |-> [j \in 1..n |-> value(recs[i][j])]]))

\* pd.read_csv(file): the bytes of a workbook are not a CSV text
read_csv(content) ==
    IF content.fmt = "csv" THEN ReadCsvLines(content.header, content.rows)
    ELSE Err("UnicodeDecodeError")

\* pd.read_excel(file): the bytes of a CSV text are not a workbook
read_excel(content) ==
    IF content.fmt = "xlsx" THEN ReadSheet(content.header, content.rows)
    ELSE Err("BadZipFile")

\* df.to_csv(buffer, index=False)
to_csv(t) ==
    LET field(c) == IF IsNA(c) THEN "" ELSE IF IsNum(c) THEN NumStr(c) ELSE c.s
    IN  Csv(t.cols, [i \in 1..NRows(t) |-> [j \in 1..NCols(t) |-> field(t.rows[i][j])]])

\* df.to_excel(buffer, index=False): a frame without columns writes no cell
to_excel(t) ==
    Xlsx(t.cols, IF NCols(t) = 0 THEN <<>> ELSE t.rows)

(***************************************************************************)
(* The cleaning operations, the projection and the derived views.          *)
(***************************************************************************)
\* df.drop_duplicates(): keep="first", over all columns, NaN equal to NaN
RECURSIVE DropFrom(_, _, _)
DropFrom(rows, i, seen) ==
    IF i > Len(rows) THEN <<>>
    ELSE IF rows[i] \in seen THEN DropFrom(rows, i + 1, seen)
         ELSE <<rows[i]>> \o DropFrom(rows, i + 1, seen \cup {rows[i]})

\* drop_duplicates(keep="last")
RECURSIVE DropFromEnd(_, _, _)
DropFromEnd(rows, i, seen) ==
    IF i < 1 THEN <<>>
    ELSE IF rows[i] \in seen THEN DropFromEnd(rows, i - 1, seen)
         ELSE DropFromEnd(rows, i - 1, seen \cup {rows[i]}) \o <<rows[i]>>

drop_duplicates_keep_last(t) == Frame(t.cols, t.dtypes, DropFromEnd(t.rows, NRows(t), {}))

drop_duplicates(t) == Frame(t.cols, t.dtypes, DropFrom(t.rows, 1, {}))

\* Series.mean(): skipna, NaN for a column without a value
RECURSIVE SumCells(_, _)
SumCells(col, i) ==
    IF i > Len(col) THEN Num(0, 1)
    ELSE IF IsNA(col[i]) THEN SumCells(col, i + 1)
         ELSE NumAdd(col[i], SumCells(col, i + 1))

mean(col) ==
    LET count == Cardinality({i \in DOMAIN col : ~IsNA(col[i])})
        total == SumCells(col, 1)
    IN  IF count = 0 THEN NA ELSE Num(total.n, total.d * count)

\* df[numeric_cols] = df[numeric_cols].fillna(0)
fill_missing_zero(t) ==
    Frame(t.cols, t.dtypes,
          [i \in 1..NRows(t) |->
              [j \in 1..NCols(t) |->
                  IF j \in NumericPositions(t) /\ IsNA(t.rows[i][j]) THEN Num(0, 1)
                  ELSE t.rows[i][j]]])

\* df[numeric_cols] = df[numeric_cols].fillna(df[numeric_cols].mean())
fill_missing(t) ==
    LET numeric == NumericPositions(t)
        m == [j \in numeric |-> mean(Column(t, j))]
    IN  Frame(t.cols, t.dtypes,
              [i \in 1..NRows(t) |->
                  [j \in 1..NCols(t) |->
                      IF j \in numeric /\ IsNA(t.rows[i][j]) THEN m[j]
                      ELSE t.rows[i][j]]])

\* df.columns = df.columns.str.lower().str.replace(" ", "_")
standardize_columns(t) ==
    Frame([j \in 1..NCols(t) |-> Replace(Lower(t.cols[j]), <<" ">>, <<"_">>)],
          t.dtypes, t.rows)

\* df.drop(columns=labels): every column carrying one of the labels goes
drop_columns(t, labels) ==
    IF \E i \in DOMAIN labels : PositionsOf(t, labels[i]) = {}
    THEN Err("KeyError")
    ELSE Ok(TakeColumns(t, Ascending({j \in 1..NCols(t) : t.cols[j] \notin Range(labels)})))

\* df[labels]: for each label in turn, every column carrying it
RECURSIVE PositionsFor(_, _, _)
PositionsFor(t, labels, i) ==
    IF i > Len(labels) THEN <<>>
    ELSE Ascending(PositionsOf(t, labels[i])) \o PositionsFor(t, labels, i + 1)

getitem(t, labels) ==
    IF \E i \in DOMAIN labels : PositionsOf(t, labels[i]) = {}
    THEN Err("KeyError")
    ELSE Ok(TakeColumns(t, PositionsFor(t, labels, 1)))

\* df.corr(): called on the whole frame.  With a text column in the frame
\* pandas >= 2.0 raises ValueError and older versions leave the column out,
\* so both outcomes are possible; the result names the columns correlated.
corr(t) ==
    IF NumericPositions(t) = 1..NCols(t)
    THEN {[kind |-> "corr", over |-> 1..NCols(t)]}
    ELSE {[kind |-> "ValueError", over |-> 1..NCols(t)],
          [kind |-> "corr", over |-> NumericPositions(t)]}

(***************************************************************************)
(* Widgets and session state.                                              *)
(***************************************************************************)
RemoveDuplicates == "Remove Duplicates"
FillMissingValues == "Fill Missing Values"
StandardizeColumnNames == "Standardize Column Names"
RemoveColumns == "Remove Columns"

\* the options of the cleaning multiselect; its value lists the selected
\* options in the order the user picked them
CleaningChoices == {RemoveDuplicates, FillMissingValues, StandardizeColumnNames, RemoveColumns}
OptionLists == Arrangements(CleaningChoices)
RowOptionLists == Arrangements({RemoveDuplicates, FillMissingValues})

\* the value of a multiselect over the column labels of t: the labels of
\* distinct options, in the order picked
LabelLists(t) == {[i \in DOMAIN ps |-> t.cols[ps[i]]] : ps \in Arrangements(1..NCols(t))}

ChartTypes == {"Bar Chart", "Line Chart", "Histogram", "Scatter Plot", "Box Plot",
               "Correlation Matrix"}

K_df == <<"d", "f">>
K_cleaned_data == <<"c", "l", "e", "a", "n", "e", "d", "_", "d", "a", "t", "a">>
K_show_balloons == <<"s", "h", "o", "w", "_", "b", "a", "l", "l", "o", "o", "n", "s">>
K_cleaning == <<"c", "l", "e", "a", "n", "i", "n", "g", "_">>
K_remove == <<"r", "e", "m", "o", "v", "e", "_">>
K_columns == <<"c", "o", "l", "u", "m", "n", "s", "_">>
K_viz == <<"v", "i", "z", "_">>
K_chart == <<"c", "h", "a", "r", "t", "_">>
K_x == <<"x", "_">>
K_y == <<"y", "_">>
K_convert == <<"c", "o", "n", "v", "e", "r", "t", "_">>
K_convert_btn == <<"c", "o", "n", "v", "e", "r", "t", "_", "b", "t", "n", "_">>
K_download == <<"d", "o", "w", "n", "l", "o", "a", "d", "_">>

EmptySession == [keys |-> {}, cleaned_data |-> {}, show_balloons |-> FALSE]

\* lines 79-82: the two entries the script creates when they are absent
InitSession(ss) ==
    [ss EXCEPT !.keys = @ \cup {K_cleaned_data, K_show_balloons}]

\* a widget created with key=prefix+file.name registers that key
Register(ss, keys) == [ss EXCEPT !.keys = @ \cup keys]

\* st.session_state.df = df
SaveAsDf(ss, name) == [ss EXCEPT !.keys = @ \cup {K_df}]

\* st.session_state.cleaned_data[file.name] = df; the stored frames are never
\* read by the script, so the entry is modelled by its key
SaveCleaned(ss, name) == [ss EXCEPT !.cleaned_data = @ \cup {name}]

\* Streamlit keeps the state of a keyed widget only while runs render it.
\* No line of the script reads a widget key, so the entries left by the
\* previous run are dropped when the next run starts; the entries the script
\* assigns itself stay for the whole session.
DropWidgetKeys(ss) == [ss EXCEPT !.keys = @ \cap {K_df, K_cleaned_data, K_show_balloons}]

(***************************************************************************)
(* The cleaning block of the script as a function of the loaded frame and  *)
(* of the two multiselect values.                                          *)
(***************************************************************************)
Selected(option, options) == \E i \in DOMAIN options : options[i] = option

\* the frame on which the "columns to remove" multiselect is offered
BeforeRemove(t, options) ==
    LET d1 == IF Selected(RemoveDuplicates, options) THEN drop_duplicates(t) ELSE t
        d2 == IF Selected(FillMissingValues, options) THEN fill_missing(d1) ELSE d1
    IN  IF Selected(StandardizeColumnNames, options) THEN standardize_columns(d2) ELSE d2

\* the cleaning steps taken in the order the multiselect lists them
RECURSIVE ListedOrderFrom(_, _, _, _)
ListedOrderFrom(t, options, to_remove, i) ==
    IF i > Len(options) THEN t
    ELSE LET o == options[i]
             u == IF o = RemoveDuplicates THEN drop_duplicates(t)
                  ELSE IF o = FillMissingValues THEN fill_missing(t)
                  ELSE IF o = StandardizeColumnNames THEN standardize_columns(t)
                  ELSE IF drop_columns(t, to_remove).ok THEN drop_columns(t, to_remove).df
                  ELSE t
         IN  ListedOrderFrom(u, options, to_remove, i + 1)

CleanInListedOrder(t, options, to_remove) ==
    LET d == ListedOrderFrom(t, options, to_remove, 1)
    IN  [loaded |-> t, deduped |-> d, filled |-> d, standardized |-> d, cleaned |-> d]

\* lines 122-139: four `if "<option>" in cleaning_options` in this order
Clean(t, options, to_remove) ==
    LET d1 == IF Selected(RemoveDuplicates, options) THEN drop_duplicates(t) ELSE t
        d2 == IF Selected(FillMissingValues, options) THEN fill_missing(d1) ELSE d1
        d3 == IF Selected(StandardizeColumnNames, options) THEN standardize_columns(d2) ELSE d2
        d4 == IF Selected(RemoveColumns, options) THEN drop_columns(d3, to_remove).df ELSE d3
    IN  [loaded |-> t, deduped |-> d1, filled |-> d2, standardized |-> d3, cleaned |-> d4]

NoHist == [loaded |-> NoDf, deduped |-> NoDf, filled |-> NoDf, standardized |-> NoDf,
           cleaned |-> NoDf]

NoViz == [kind |-> "none", chart |-> "", over |-> {}]
NoDownload == [kind |-> "none"]

MimeCsv == "text/csv"
MimeXlsx == "application/vnd.openxmlformats-officedocument.spreadsheetml.sheet"
ExtCsv == <<".", "c", "s", "v">>
ExtXlsx == <<".", "x", "l", "s", "x">>

\* file_ext = os.path.splitext(file.name)[-1].lower()
FileExt(name) == Lower(SplitExt(name))

\* lines 199-207: buffer, file_name and mime_type of the per-file conversion
Conversion(t, name, conversion_type) ==
    IF conversion_type = "CSV"
    THEN [kind |-> "download", data |-> to_csv(t),
          file_name |-> Replace(name, FileExt(name), ExtCsv), mime |-> MimeCsv,
          source |-> name, type |-> conversion_type]
    ELSE [kind |-> "download", data |-> to_excel(t),
          file_name |-> Replace(name, FileExt(name), ExtXlsx), mime |-> MimeXlsx,
          source |-> name, type |-> conversion_type]

\* lines 58-68: what the sidebar button does when pressed
SidebarConvert(ss) == IF K_df \in ss.keys THEN "download" ELSE "warning"

(***************************************************************************)
(* The script run.                                                         *)
(***************************************************************************)
file == uploaded_files[idx]

\* the end of one loop iteration: the next file, or the end of the loop
NextFile(out) ==
    /\ outcome' = out
    /\ idx' = IF idx < Len(uploaded_files) THEN idx + 1 ELSE idx
    /\ pc' = IF idx < Len(uploaded_files) THEN "load" ELSE "end"

\* an exception no `except` catches ends the script run where it is raised
Abort(ss) ==
    /\ pc' = "idle"
    /\ outcome' = [outcome EXCEPT ![idx] = "exception"]
    /\ session_state' = ss
    /\ idx' = idx

\* lines 40-85: a user interaction reruns the script from the top with the
\* current value of the uploader; `clicked` is the sidebar button
Rerun(files, clicked) ==
    /\ pc = "idle"
    /\ sidebar' = IF clicked THEN SidebarConvert(session_state) ELSE "none"
    /\ session_state' = InitSession(DropWidgetKeys(session_state))
    /\ uploaded_files' = files
    /\ outcome' = [i \in DOMAIN files |-> "pending"]
    /\ idx' = IF files = <<>> THEN 0 ELSE 1
    /\ pc' = IF files = <<>> THEN "end" ELSE "load"
    /\ df' = NoDf
    /\ hist' = NoHist
    /\ cleaning_options' = <<>>
    /\ columns_to_remove' = <<>>
    /\ columns_to_keep' = <<>>
    /\ viz' = NoViz
    /\ download' = NoDownload

\* lines 87-111: load the file, or report the error and `continue`
LoadFile ==
    /\ pc = "load"
    /\ LET file_ext == FileExt(file.name)
           r == IF file_ext = ExtCsv THEN read_csv(file.content)
                ELSE IF file_ext = ExtXlsx THEN read_excel(file.content)
                ELSE Err("Unsupported file type")
       IN  IF r.ok
           THEN /\ df' = r.df
                /\ hist' = [NoHist EXCEPT !.loaded = r.df]
                /\ pc' = "clean"
                /\ UNCHANGED <<idx, session_state, outcome>>
           ELSE /\ NextFile([outcome EXCEPT ![idx] = "load_error"])
                /\ UNCHANGED <<df, hist, session_state>>
    /\ cleaning_options' = <<>>
    /\ columns_to_remove' = <<>>
    /\ columns_to_keep' = <<>>
    /\ viz' = NoViz
    /\ download' = NoDownload
    /\ UNCHANGED <<uploaded_files, sidebar>>

\* lines 113-142: the cleaning multiselect, the four cleaning steps with the
\* "columns to remove" multiselect, and the save to session state
CleanWith(options, to_remove) ==
    /\ LET h == Clean(df, options, to_remove)
       IN  /\ hist' = h
           /\ df' = h.cleaned
    /\ cleaning_options' = options
    /\ columns_to_remove' = to_remove
    /\ session_state' =
           SaveCleaned(Register(session_state,
                                {K_cleaning \o file.name}
                                \cup IF Selected(RemoveColumns, options)
                                     THEN {K_remove \o file.name} ELSE {}),
                       file.name)
    /\ pc' = "project"
    /\ UNCHANGED <<uploaded_files, idx, columns_to_keep, viz, download, sidebar, outcome>>

RemovableLists(t, options) ==
    IF Selected(RemoveColumns, options) THEN LabelLists(BeforeRemove(t, options))
    ELSE {<<>>}

CleanFile ==
    /\ pc = "clean"
    /\ \E options \in OptionLists :
          \E to_remove \in RemovableLists(df, options) : CleanWith(options, to_remove)

\* the cleaning block with the two row operations only
CleanRows ==
    /\ pc = "clean"
    /\ \E options \in RowOptionLists : CleanWith(options, <<>>)

\* lines 144-152: the "columns to keep" multiselect and df = df[columns_to_keep]
ProjectFile ==
    /\ pc = "project"
    /\ \E keep \in LabelLists(df) :
          LET r == getitem(df, keep)
              ss == Register(session_state, {K_columns \o file.name})
          IN  /\ columns_to_keep' = keep
              /\ IF r.ok
                 THEN /\ df' = r.df
                      /\ pc' = "viz"
                      /\ session_state' = ss
                      /\ UNCHANGED <<idx, outcome>>
                 ELSE /\ Abort(ss)
                      /\ UNCHANGED df
    /\ cleaning_options' = <<>>
    /\ columns_to_remove' = <<>>
    /\ UNCHANGED <<uploaded_files, hist, viz, download, sidebar>>

\* lines 154-188: the visualization block
Visualize ==
    /\ pc = "viz"
    /\ \E show \in BOOLEAN :
          LET numeric == NumericPositions(df)
              ss == Register(session_state, {K_viz \o file.name})
          IN  IF ~show
              THEN /\ viz' = NoViz
                   /\ session_state' = ss
                   /\ pc' = "convert"
                   /\ UNCHANGED <<idx, outcome>>
              ELSE IF numeric = {}
              THEN /\ viz' = [kind |-> "warning", chart |-> "", over |-> {}]
                   /\ session_state' = ss
                   /\ pc' = "convert"
                   /\ UNCHANGED <<idx, outcome>>
              ELSE \E chart_type \in ChartTypes :
                     IF chart_type # "Correlation Matrix"
                     THEN \E x_axis \in numeric, y_axis \in numeric :
                            /\ viz' = [kind |-> "chart", chart |-> chart_type,
                                       over |-> PositionsOf(df, df.cols[x_axis])
                                                \cup IF chart_type = "Histogram" THEN {}
                                                     ELSE PositionsOf(df, df.cols[y_axis])]
                            /\ session_state' =
                                   Register(ss, {K_chart \o file.name, K_x \o file.name,
                                                 K_y \o file.name})
                            /\ pc' = "convert"
                            /\ UNCHANGED <<idx, outcome>>
                     ELSE \E r \in corr(df) :
                            /\ viz' = [kind |-> r.kind, chart |-> chart_type, over |-> r.over]
                            /\ IF r.kind = "ValueError"
                               THEN Abort(Register(ss, {K_chart \o file.name}))
                               ELSE /\ pc' = "convert"
                                    /\ session_state' = Register(ss, {K_chart \o file.name})
                                    /\ UNCHANGED <<idx, outcome>>
    /\ hist' = NoHist
    /\ columns_to_keep' = <<>>
    /\ UNCHANGED <<uploaded_files, df, cleaning_options, columns_to_remove, download, sidebar>>

\* lines 190-219: the conversion radio and button and the download button
ConvertFile ==
    /\ pc = "convert"
    /\ \E conversion_type \in {"CSV", "Excel"}, clicked \in BOOLEAN :
          LET ss == Register(session_state,
                             {K_convert \o file.name, K_convert_btn \o file.name})
              out == [outcome EXCEPT ![idx] = "processed"]
          IN  IF clicked
              THEN /\ download' = Conversion(df, file.name, conversion_type)
                   /\ session_state' = [Register(ss, {K_download \o file.name})
                                            EXCEPT !.show_balloons = TRUE]
                   /\ NextFile(out)
              ELSE /\ download' = NoDownload
                   /\ session_state' = ss
                   /\ NextFile(out)
    /\ viz' = NoViz
    /\ UNCHANGED <<uploaded_files, df, hist, cleaning_options, columns_to_remove,
                   columns_to_keep, sidebar>>

\* lines 221-230: after the loop (and only when files are uploaded) the
\* balloons trigger is consumed; the run ends and its locals with it
Finish ==
    /\ pc = "end"
    /\ session_state' = IF uploaded_files # <<>>
                        THEN [session_state EXCEPT !.show_balloons = FALSE]
                        ELSE session_state
    /\ pc' = "idle"
    /\ df' = NoDf
    /\ hist' = NoHist
    /\ cleaning_options' = <<>>
    /\ columns_to_remove' = <<>>
    /\ columns_to_keep' = <<>>
    /\ viz' = NoViz
    /\ download' = NoDownload
    /\ UNCHANGED <<uploaded_files, idx, sidebar, outcome>>

(***************************************************************************)
(* Inputs.                                                                 *)
(***************************************************************************)
L_n == <<"n">>
L_s == <<"s">>
L_A_B == <<"A", " ", "B">>
L_A_B_ == <<"A", "_", "B">>

N_a_csv == <<"a", ".", "c", "s", "v">>
N_B_XLSX == <<"B", ".", "X", "L", "S", "X">>
N_c_xlsx == <<"c", ".", "x", "l", "s", "x">>

\* every CSV file with this header, the fields of column j from fields[j], at
\* most n rows
CsvFilesOf(header, fields, n) ==
    LET records == {r \in [1..Len(header) -> UNION Range(fields)] :
                       \A j \in 1..Len(header) : r[j] \in fields[j]}
    IN  {Csv(header, rows) : rows \in SeqsUpTo(records, n)}

\* the files cleaned under SpecClean
ContentsPerm ==
    CsvFilesOf(<<L_n>>, <<{"", "1", "a"}>>, MaxRowsPerm)
    \cup CsvFilesOf(<<L_A_B, L_A_B_>>, <<{"", "1"}, {"", "a"}>>, MaxRowsPerm)

\* the files cleaned under SpecOps
ContentsOps ==
    CsvFilesOf(<<L_n>>, <<{"", "1", "2", "a"}>>, MaxRows)
    \cup CsvFilesOf(<<L_n, L_s>>, <<{"", "1", "2"}, {"", "a"}>>, MaxRows)

\* the files a user uploads under Spec: a CSV file whose two column names
\* standardize to the same name, a workbook with a repeated header and an
\* upper-case extension, and a CSV text uploaded under a workbook's name
FilePool ==
    { [name |-> N_a_csv,
       content |-> Csv(<<L_A_B, L_A_B_>>, << <<"1", "a">>, <<"", "a">>, <<"1", "a">> >>)],
      [name |-> N_B_XLSX,
       content |-> Xlsx(<<L_n, L_n>>, << <<Num(1, 1), Num(2, 1)>>, <<Num(2, 1), NA>> >>)],
      [name |-> N_c_xlsx,
       content |-> Csv(<<L_n>>, << <<"1">> >>)] }

\* the uploader holds at most MaxFiles files, each uploaded once
UploadLists == {fs \in Arrangements(FilePool) : Len(fs) <= MaxFiles}

(***************************************************************************)
(* Specifications.                                                         *)
(***************************************************************************)
Locals ==
    /\ df = NoDf
    /\ hist = NoHist
    /\ cleaning_options = <<>>
    /\ columns_to_remove = <<>>
    /\ columns_to_keep = <<>>
    /\ viz = NoViz
    /\ download = NoDownload
    /\ sidebar = "none"

\* the session before the first run of the script
Init ==
    /\ uploaded_files = <<>>
    /\ session_state = EmptySession
    /\ pc = "idle"
    /\ idx = 0
    /\ outcome = <<>>
    /\ Locals

UserRerun == \E files \in UploadLists, clicked \in BOOLEAN : Rerun(files, clicked)

Next ==
    UserRerun \/ LoadFile \/ CleanFile \/ ProjectFile \/ Visualize \/ ConvertFile \/ Finish

Spec == Init /\ [][Next]_vars

\* one file of `contents` uploaded as a.csv, at the top of the file loop
InitWith(contents) ==
    /\ \E content \in contents : uploaded_files = <<[name |-> N_a_csv, content |-> content]>>
    /\ session_state = InitSession(EmptySession)
    /\ pc = "load"
    /\ idx = 1
    /\ outcome = <<"pending">>
    /\ Locals

\* the loader and the cleaning block, every order of selection
InitClean == InitWith(ContentsPerm)
NextClean == LoadFile \/ CleanFile
SpecClean == InitClean /\ [][NextClean]_vars

\* the loader and the two row operations of the cleaning block
InitOps == InitWith(ContentsOps)
NextOps == LoadFile \/ CleanRows
SpecOps == InitOps /\ [][NextOps]_vars

(***************************************************************************)
(* Properties.                                                             *)
(***************************************************************************)
IsFrame(t) == t.k = "df"

\* the cleaning operations in the order the documentation fixes
CanonicalOrder ==
    <<RemoveDuplicates, FillMissingValues, StandardizeColumnNames, RemoveColumns>>

ApplyOperation(t, option, to_remove) ==
    CASE option = RemoveDuplicates -> drop_duplicates(t)
      [] option = FillMissingValues -> fill_missing(t)
      [] option = StandardizeColumnNames -> standardize_columns(t)
      [] option = RemoveColumns ->
             IF drop_columns(t, to_remove).ok THEN drop_columns(t, to_remove).df ELSE t

RECURSIVE ApplyInOrder(_, _, _, _)
ApplyInOrder(t, order, to_remove, i) ==
    IF i > Len(order) THEN t
    ELSE ApplyInOrder(ApplyOperation(t, order[i], to_remove), order, to_remove, i + 1)

\* the selected operations, applied one after the other in canonical order
CanonicalClean(t, selected, to_remove) ==
    ApplyInOrder(t, SelectSeq(CanonicalOrder, LAMBDA o : o \in selected), to_remove, 1)

Orderings(options) == {p \in Arrangements(Range(options)) : Len(p) = Len(options)}

\* C1: whatever the order in which the caller lists the selected cleaning
\* operations, the cleaned frame is the one obtained by applying the selected
\* operations in the order Remove Duplicates, Fill Missing Values, Standardize
\* Column Names, Remove Columns; every other listing of the same selection
\* gives the same frame.
C1_CanonicalOrder ==
    pc = "project" =>
        /\ hist.cleaned = CanonicalClean(hist.loaded, Range(cleaning_options),
                                         columns_to_remove)
        /\ df = hist.cleaned
        /\ \A p \in Orderings(cleaning_options) :
               Clean(hist.loaded, p, columns_to_remove).cleaned = hist.cleaned

\* a selection listed against the canonical order on a frame where filling
\* before removing duplicates would give another frame
C1_Witness ==
    /\ pc = "project"
    /\ cleaning_options = <<RemoveColumns, FillMissingValues, RemoveDuplicates>>
    /\ columns_to_remove # <<>>
    /\ drop_duplicates(fill_missing(hist.loaded)) # fill_missing(drop_duplicates(hist.loaded))

\* the rows of t that differ from every earlier row, in their order
FirstOccurrences(t) ==
    LET kept == {i \in 1..NRows(t) : \A j \in 1..(i - 1) : t.rows[j] # t.rows[i]}
        order == Ascending(kept)
    IN  [k \in 1..Cardinality(kept) |-> t.rows[order[k]]]

\* C5: Remove Duplicates returns exactly the rows that are not equal (all
\* columns equal, missing equal to missing) to an earlier row, in their
\* original order, with the columns untouched; removing duplicates from the
\* result again changes nothing.
C5_RemoveDuplicates ==
    (pc = "project" /\ Selected(RemoveDuplicates, cleaning_options)) =>
        /\ hist.deduped.rows = FirstOccurrences(hist.loaded)
        /\ hist.deduped.cols = hist.loaded.cols
        /\ hist.deduped.dtypes = hist.loaded.dtypes
        /\ drop_duplicates(hist.deduped) = hist.deduped

\* a later copy of a row with a missing cell is removed from between rows
\* that stay
C5_Witness ==
    /\ pc = "project"
    /\ Selected(RemoveDuplicates, cleaning_options)
    /\ NRows(hist.loaded) = 4
    /\ NRows(hist.deduped) = 3
    /\ \E j \in 1..NCols(hist.loaded) : IsNA(hist.loaded.rows[1][j])
    /\ hist.loaded.rows[3] = hist.loaded.rows[1]
    /\ hist.deduped.rows[3] = hist.loaded.rows[4]

\* the sum of the numerators of the present cells of a column
RECURSIVE SumOfPresent(_, _)
SumOfPresent(col, present) ==
    IF present = {} THEN 0
    ELSE LET i == CHOOSE i \in present : TRUE
         IN  col[i].n + SumOfPresent(col, present \ {i})

\* cell `after` is what Fill Missing Values makes of row i of column j of
\* `before`: a missing cell of a numeric column with a present cell becomes
\* the number m with m * count = sum over the present cells, every other
\* cell stays as it is
FilledCell(before, after, i, j) ==
    LET col == Column(before, j)
        present == {r \in DOMAIN col : ~IsNA(col[r])}
        old == before.rows[i][j]
        new == after.rows[i][j]
    IN  IF IsNA(old) /\ before.dtypes[j] = "number" /\ present # {}
        THEN /\ IsNum(new)
             /\ \A r \in present : IsNum(col[r]) /\ col[r].d = 1
             /\ new.n * Cardinality(present) = SumOfPresent(col, present) * new.d
        ELSE new = old

\* C6: Fill Missing Values replaces every missing cell of a numeric column by
\* the arithmetic mean of the column's present values at fill time (after
\* Remove Duplicates when selected) and changes nothing else: present cells,
\* text columns, an all-missing numeric column, column names and order and
\* the row count stay, and a frame without a missing numeric cell is returned
\* equal.
C6_FillMissingValues ==
    (pc = "project" /\ Selected(FillMissingValues, cleaning_options)) =>
        LET before == hist.deduped
            after == hist.filled
        IN  /\ after.cols = before.cols
            /\ after.dtypes = before.dtypes
            /\ NRows(after) = NRows(before)
            /\ \A i \in 1..NRows(before) : \A j \in 1..NCols(before) :
                   /\ Len(after.rows[i]) = NCols(before)
                   /\ FilledCell(before, after, i, j)
            /\ (\A i \in 1..NRows(before) : \A j \in NumericPositions(before) :
                    ~IsNA(before.rows[i][j])) => after = before

\* both row operations selected on a frame whose mean changes when the
\* duplicates go, with a text column that keeps its missing cell
C6_Witness ==
    /\ pc = "project"
    /\ Selected(FillMissingValues, cleaning_options)
    /\ Selected(RemoveDuplicates, cleaning_options)
    /\ NCols(hist.loaded) = 2
    /\ hist.loaded.dtypes = <<"number", "object">>
    /\ mean(Column(hist.loaded, 1)) # mean(Column(hist.deduped, 1))
    /\ \E i \in 1..NRows(hist.deduped) :
           /\ IsNA(hist.deduped.rows[i][1])
           /\ IsNA(hist.deduped.rows[i][2])
           /\ hist.filled.rows[i][1] = Num(3, 2)
           /\ IsNA(hist.filled.rows[i][2])

\* C2: when the run has ended, no uploaded file is left unprocessed: each was
\* processed to completion or had its own failure reported, whatever happened
\* to the files before it.
C2_FailureIsolated ==
    pc = "idle" => \A i \in DOMAIN outcome : outcome[i] # "pending"

UniqueNames(t) == \A i, j \in 1..NCols(t) : t.cols[i] = t.cols[j] => i = j

\* C3: the column names of the frame are unique after every transformation;
\* Standardize Column Names never yields two columns with the same name.
C3_UniqueColumnNames ==
    IsFrame(df) => UniqueNames(df)

\* pd.read_csv / pd.read_excel on the bytes of a download, by its format
Reload(d) == IF d.type = "CSV" THEN read_csv(d.data) ELSE read_excel(d.data)

\* C4: loading the bytes exported for a frame gives the frame back: the same
\* column names in the same order, the same rows, missing cells where the
\* frame has them, text and numbers equal.
C4_RoundTrip ==
    download.kind = "download" =>
        /\ Reload(download).ok
        /\ Reload(download).df.cols = df.cols
        /\ Reload(download).df.rows = df.rows

\* C7: the projected frame has exactly the chosen columns in the chosen order,
\* each with the cells of the column of that name and the same row count, and
\* the default selection (all columns) leaves the frame as it was.
C7_Projection ==
    pc = "viz" =>
        /\ df.cols = columns_to_keep
        /\ NRows(df) = NRows(hist.cleaned)
        /\ \A i \in 1..NCols(df) :
               \E j \in PositionsOf(hist.cleaned, df.cols[i]) :
                   Column(df, i) = Column(hist.cleaned, j)
        /\ columns_to_keep = hist.cleaned.cols => df = hist.cleaned

\* C8: when the correlation matrix is requested, a frame with fewer than two
\* numeric columns gets the informational message and no matrix, and a frame
\* with two or more gets the matrix over exactly its numeric columns.
C8_Correlation ==
    viz.chart = "Correlation Matrix" =>
        IF Cardinality(NumericPositions(df)) < 2
        THEN viz.kind = "warning"
        ELSE viz.kind = "corr" /\ viz.over = NumericPositions(df)

\* the name without its extension: up to the last dot
Stem(name) == SubSeq(name, 1, LastDot(name) - 1)

\* C9: the downloaded file is named as the uploaded one with only its
\* extension replaced by the canonical extension of the target format, and
\* carries the MIME type of that format.
C9_OutputName ==
    download.kind = "download" =>
        IF download.type = "CSV"
        THEN download.file_name = Stem(download.source) \o ExtCsv /\ download.mime = MimeCsv
        ELSE download.file_name = Stem(download.source) \o ExtXlsx /\ download.mime = MimeXlsx

\* C10: session state never holds the key "df": cleaned frames are stored
\* under cleaned_data[file name] only, so the sidebar button, when pressed,
\* always shows the warning and never a download.
C10_NoDfKey ==
    /\ K_df \notin session_state.keys
    /\ session_state.cleaned_data \subseteq {f.name : f \in FilePool}
    /\ sidebar \in {"none", "warning"}

\* the sidebar button is pressed in a session that holds two cleaned files
C10_Witness ==
    /\ sidebar = "warning"
    /\ Cardinality(session_state.cleaned_data) = 2
    /\ K_cleaned_data \in session_state.keys

====
